---------------------------- MODULE Spec2Model ----------------------------
(***************************************************************************)
(* Model of recurrentes.py: the forced-action gate of Scheduler._routine   *)
(* working on the ActivityLog row store, the row parsing of                *)
(* Scheduler._searchRegistries, the log replay of Scheduler._getTasks and  *)
(* the zone normalisation of ensure_tz.                                    *)
(*                                                                         *)
(* A text (one CSV field, one log message) is a sequence of tokens, and    *)
(* the Python test `a in b` on two texts is "a is a contiguous run of      *)
(* tokens of b".  A row is a sequence of fields.  Python indexes from 0:   *)
(* Col(r, i) is r[i].                                                      *)
(***************************************************************************)
EXTENDS Naturals, Integers, Sequences, FiniteSets, TLC

\* ------------------------------------------------------------- bounds
MaxDay == 2          \* calendar days the clock runs through (1..MaxDay)
MaxRuns == 2         \* scheduler invocations in one behaviour
MaxInitRows == 2     \* rows the log holds before the first invocation
MaxEvents == 2       \* events handed to one call of _getTasks
MaxWhen == 2         \* distinct instants the events of one call carry

\* ------------------------------------------------------------- texts
Contains(text, q) ==
    \E i \in 1..(Len(text) + 1 - Len(q)) : SubSeq(text, i, i + Len(q) - 1) = q

Col(r, i) == r[i + 1]

\* now_mx().date().isoformat() on calendar day d
IsoDate(d) == << "2025-09-1" \o ToString(d) >>

\* now_mx().isoformat() on calendar day d
IsoDateTime(d) == IsoDate(d) \o << "T17:40:30.825427-06:00" >>

\* ------------------------------------------------------------- catalog
forced_tasks == { "publicacionFbUmigus", "publicacionFbGenesys" }

forced_names == << "publicacionFbUmigus" >>

Procs == { "p1", "p2" }

VARIABLES
    activityLog,   \* the rows of the ActivityLog store, top row first
    day,           \* the calendar day now_mx() reports
    runs,          \* invocations started so far
    pc,            \* per process: where its invocation of _routine stands
    notify,        \* per process: self._send_chat_message and self._channel_id
    ni,            \* per process: position of `name` in forced_names
    existing,      \* per process: the rows of the last searchRows(name)
    flag,          \* per process: the local `flag` of _routine
    searched,      \* per process: names searchRows was called with
    seenAt,        \* per process: rows the log held when it was last searched
    scanDay,       \* per process: the day now_mx() reported to the last scan
    before,        \* per process: the log as its invocation found it
    initLen,       \* rows the log held before the first invocation
    attempts,      \* per process: one record per call of _accion
    mlog,          \* per process: messages handed to mlog in this invocation
    registries,    \* the argument of the call of _getTasks
    tasks,         \* what that call returned
    tpc,           \* where that call stands: "idle", "ready", "returned", ...
    result,        \* the rows searchRows(field) gave _searchRegistries
    shuffled,      \* the same events in another arrival order
    tasks2,        \* what _getTasks returned for them
    appended,      \* the events whose rows were appended before the search
    MX_TZ,         \* the module's zone: "America/Mexico_City", or "None"
    dt,            \* a timestamp handed to ensure_tz
    normalized,    \* what ensure_tz returned for it, and for that again
    stamps         \* created_at and updated_at of a Task constructed with dt

svars == << activityLog, day, runs, pc, notify, ni, existing, flag, searched,
            seenAt, scanDay, before, initLen, attempts, mlog >>

zvars == << MX_TZ, dt, normalized, stamps >>

tvars == << registries, tasks, tpc, result, shuffled, tasks2, appended, zvars >>

vars == << svars, tvars >>

\* ------------------------------------------------------------- zones
\* A timestamp is a wall-clock value with a tzinfo ("none" when naive);
\* NoStamp is the Python None.
NoStamp == [wall |-> 0, tzinfo |-> "absent"]

MexicoCity == "America/Mexico_City"

\* now_mx(): datetime.now(MX_TZ) if MX_TZ else datetime.now()
now_mx(d) == [wall |-> 2 * d + 1, tzinfo |-> IF MX_TZ # "None" THEN MX_TZ ELSE "none"]

\* ensure_tz(dt)
ensure_tz(stamp) ==
    IF stamp = NoStamp THEN NoStamp
    ELSE IF MX_TZ # "None" /\ stamp.tzinfo = "none" THEN [stamp EXCEPT !.tzinfo = MX_TZ]
    ELSE stamp

\* `ensure_tz(x) or now_mx()`
EnsureOrNow(stamp, d) == IF ensure_tz(stamp) = NoStamp THEN now_mx(d) ELSE ensure_tz(stamp)

\* no timestamp is under normalisation; the zone database was found
ZoneAtRest ==
    /\ MX_TZ = MexicoCity
    /\ dt = NoStamp
    /\ normalized = << >>
    /\ stamps = << >>

\* ------------------------------------------------------------- row store
\* CsvManager.searchRows(q): every row with q inside one of its fields
searchRows(rows, q) ==
    SelectSeq(rows, LAMBDA r : \E i \in 1..Len(r) : Contains(r[i], q))

\* CsvManager.addTopRow(row)
addTopRow(rows, row) == << row >> \o rows

\* ------------------------------------------------------------- payloads
\* A payload value is null, a string (its tokens) or a list (its items);
\* a key the dict does not hold has the value Absent.
Keys == { "title", "labels", "status", "mode", "priority" }

Absent == [t |-> "absent", v |-> << >>]

None == [t |-> "null", v |-> << >>]

Str(toks) == [t |-> "str", v |-> toks]

List(items) == [t |-> "list", v |-> items]

\* d.get(k)
Get(d, k) == IF d[k] = Absent THEN None ELSE d[k]

NoData == [k \in Keys |-> Absent]

\* the quote and the apostrophe are tokens of their own
Q == "\""

Apostrophe == "'"

At(t, i) == IF i \in 1..Len(t) THEN t[i] ELSE ""

\* the characters of a run of tokens, as one str
RECURSIVE Text(_)
Text(toks) == IF toks = << >> THEN "" ELSE Head(toks) \o Text(Tail(toks))

\* the tokens of a list item, for the items the payloads use
ItemToks(item) ==
    CASE item = "it's" -> << "it", Apostrophe, "s" >>
      [] item = "" -> << >>
      [] OTHER -> << item >>

\* json.dumps(data, ensure_ascii=False), data given as its (key, value)
\* pairs in insertion order; the strings hold no quote and no backslash
RECURSIVE DumpItems(_)
DumpItems(items) ==
    IF items = << >> THEN << >>
    ELSE << Q >> \o ItemToks(Head(items)) \o << Q >>
         \o (IF Len(items) > 1 THEN << "," >> ELSE << >>)
         \o DumpItems(Tail(items))

DumpValue(v) ==
    CASE v.t = "null" -> << "null" >>
      [] v.t = "list" -> << "[" >> \o DumpItems(v.v) \o << "]" >>
      [] OTHER -> << Q >> \o v.v \o << Q >>

RECURSIVE DumpPairs(_)
DumpPairs(pairs) ==
    IF pairs = << >> THEN << >>
    ELSE << Q, pairs[1][1], Q, ":" >> \o DumpValue(pairs[1][2])
         \o (IF Len(pairs) > 1 THEN << "," >> ELSE << >>)
         \o DumpPairs(Tail(pairs))

dumps(pairs) == << "{" >> \o DumpPairs(pairs) \o << "}" >>

\* data_str.replace("'", '"')
ReplaceApostrophes(t) == [i \in 1..Len(t) |-> IF t[i] = Apostrophe THEN Q ELSE t[i]]

\* json.loads on a run of tokens: a JSON object whose values are strings,
\* null or lists of strings decodes to its dict (the keys of Keys are kept),
\* any other text this model uses is not JSON
Undecoded == [ok |-> FALSE, v |-> None, next |-> 0]

\* position of the first quote at or after i, 0 when there is none
NextQ(t, i) ==
    IF \E j \in i..Len(t) : t[j] = Q
    THEN CHOOSE j \in i..Len(t) : t[j] = Q /\ \A k \in i..(j - 1) : t[k] # Q
    ELSE 0

ParseString(t, i) ==
    LET j == NextQ(t, i + 1)
    IN  IF At(t, i) # Q \/ j = 0 THEN Undecoded
        ELSE [ok |-> TRUE, v |-> Str(SubSeq(t, i + 1, j - 1)), next |-> j + 1]

RECURSIVE ParseItems(_, _, _)
ParseItems(t, i, acc) ==
    LET s == ParseString(t, i)
    IN  IF ~s.ok THEN Undecoded
        ELSE IF At(t, s.next) = ","
             THEN ParseItems(t, s.next + 1, Append(acc, Text(s.v.v)))
        ELSE IF At(t, s.next) = "]"
             THEN [ok |-> TRUE, v |-> List(Append(acc, Text(s.v.v))), next |-> s.next + 1]
        ELSE Undecoded

ParseArray(t, i) ==
    IF At(t, i + 1) = "]"
    THEN [ok |-> TRUE, v |-> List(<< >>), next |-> i + 2]
    ELSE ParseItems(t, i + 1, << >>)

ParseValue(t, i) ==
    CASE At(t, i) = Q -> ParseString(t, i)
      [] At(t, i) = "[" -> ParseArray(t, i)
      [] At(t, i) = "null" -> [ok |-> TRUE, v |-> None, next |-> i + 1]
      [] OTHER -> Undecoded

RECURSIVE ParseMembers(_, _, _)
ParseMembers(t, i, d) ==
    LET k == ParseString(t, i)
        v == ParseValue(t, k.next + 1)
        key == Text(k.v.v)
        d2 == IF key \in Keys THEN [d EXCEPT ![key] = v.v] ELSE d
    IN  IF ~k.ok \/ At(t, k.next) # ":" THEN Undecoded
        ELSE IF ~v.ok THEN Undecoded
        ELSE IF At(t, v.next) = "," THEN ParseMembers(t, v.next + 1, d2)
        ELSE IF At(t, v.next) = "}" /\ v.next = Len(t)
             THEN [ok |-> TRUE, v |-> d2, next |-> v.next + 1]
        ELSE Undecoded

loads(t) ==
    IF At(t, 1) # "{" THEN Undecoded
    ELSE IF At(t, 2) = "}" /\ Len(t) = 2 THEN [ok |-> TRUE, v |-> NoData, next |-> 3]
    ELSE ParseMembers(t, 2, NoData)

\* ------------------------------------------------------------- _accion
\* the dict `data` _accion builds
DoneDict(name) ==
    << << "title", Str(<< name >>) >>, << "mode", Str(<< "AUTO" >>) >>,
       << "due", Str(<< "DAILY" >>) >>, << "priority", Str(<< "MED" >>) >>,
       << "status", Str(<< "DONE" >>) >>, << "labels", List(<< "forced", "umigus" >>) >>,
       << "source", Str(<< "scheduler:forced" >>) >> >>

DoneData(name) == dumps(DoneDict(name))

\* the tuple _accion hands to addTopRow
DoneRow(name, d) ==
    << << >>, << "TASK" >>, << "DONE" >>, << "tsk_2025091" \o ToString(d) >>,
       IsoDateTime(d), << "DONE" >>, DoneData(name) >>

ErrorMsg(name, exc) ==
    [level |-> "error", text |-> << "Error ejecutando tarea forzada", name, exc >>]

SuccessMsg ==
    [level |-> "success",
     text |-> << "Propuesta de publicacion Umigus ejecutada y registrada como DONE." >>]

InfoMsg ==
    [level |-> "info",
     text |-> << "- [x] Publicacion FB Umigus ya realizada. Tarea ignorada" >>]

StartMsg ==
    [level |-> "newLog",
     text |-> << "Scheduler ha recibido las tareas, iniciando rutina..." >>]

\* the rows after one call of _accion whose rapidaUmigus call ended in fn
RowsAfterAccionAtBottom(rows, name, fn, d) ==
    IF fn = "raised" THEN rows ELSE Append(rows, DoneRow(name, d))

RowsAfterAccion(rows, name, fn, d) ==
    IF fn = "raised" THEN rows ELSE addTopRow(rows, DoneRow(name, d))

\* the messages one call of _accion logs
AccionLogsSilent(name, fn, dispatch) ==
    IF fn = "raised" THEN << >> ELSE << SuccessMsg >>

AccionLogs(name, fn, dispatch) ==
    IF fn = "raised"
    THEN << ErrorMsg(name, "ActionError") >>
    ELSE << SuccessMsg >> \o
         (IF dispatch = "fails" THEN << ErrorMsg(name, "RuntimeError") >> ELSE << >>)

\* fn: how rapidaUmigus("") ended; dispatch: how the create_task line ended
\* ("none" when no notifier and channel are configured or it was not reached)
Accion(p, name, fn, dispatch) ==
    /\ fn \in { "returned", "raised" }
    /\ dispatch \in { "none", "scheduled", "fails" }
    /\ (dispatch # "none") <=> (fn = "returned" /\ notify[p])
    /\ activityLog' = RowsAfterAccion(activityLog, name, fn, day)
    /\ attempts' = [attempts EXCEPT ![p] = Append(@,
                       [name |-> name, fn |-> fn,
                        row |-> (activityLog' # activityLog),
                        dispatch |-> dispatch,
                        logs |-> AccionLogs(name, fn, dispatch)])]
    /\ mlog' = [mlog EXCEPT ![p] = @ \o AccionLogs(name, fn, dispatch)]

\* ------------------------------------------------------------- _routine
\* `now_mx().date().isoformat() in r[4]`
RowIsToday(r, d) == Contains(Col(r, 4), IsoDate(d))

\* r[4] of a row with fewer than five fields raises IndexError
ScanRaises(rows) == \E i \in 1..Len(rows) : Len(rows[i]) < 5

\* the value of `flag` after `for r in existing`
ScanFlagAnyRow(old, rows, d) == old \/ Len(rows) > 0

ScanFlagNever(old, rows, d) == old

ScanFlagLastRow(old, rows, d) == Len(rows) > 0 /\ RowIsToday(rows[Len(rows)], d)

ScanFlag(old, rows, d) == old \/ \E i \in 1..Len(rows) : RowIsToday(rows[i], d)

\* `if flag == False` after the loop over forced_names
GateRunsInverted(f) == f = TRUE

GateRuns(f) == f = FALSE

\* `if len(existing) == 0` inside the loop
LoopRuns(rows) == Len(rows) = 0

Resting(p) == pc[p] \in { "idle", "done", "raised" }

\* the next statement after one pass of `for name in forced_names`
AfterPass(p) ==
    /\ ni' = [ni EXCEPT ![p] = @ + 1]
    /\ pc' = [pc EXCEPT ![p] = IF ni[p] + 1 > Len(forced_names) THEN "gate" ELSE "loop"]

\* Scheduler(...) is constructed and _routine starts.  __init__ first calls
\* _searchRegistries(today) and _getTasks, which only read the log; the
\* `tasks` they give is read by no statement of _routine that runs.
Begin(p, n) ==
    /\ Resting(p)
    /\ runs < MaxRuns
    /\ runs' = runs + 1
    /\ notify' = [notify EXCEPT ![p] = n]
    /\ pc' = [pc EXCEPT ![p] = "loop"]
    /\ ni' = [ni EXCEPT ![p] = 1]
    /\ flag' = [flag EXCEPT ![p] = FALSE]
    /\ existing' = [existing EXCEPT ![p] = << >>]
    /\ searched' = [searched EXCEPT ![p] = { }]
    /\ seenAt' = [seenAt EXCEPT ![p] = Len(activityLog)]
    /\ scanDay' = [scanDay EXCEPT ![p] = day]
    /\ before' = [before EXCEPT ![p] = activityLog]
    /\ attempts' = [attempts EXCEPT ![p] = << >>]
    /\ mlog' = [mlog EXCEPT ![p] = << StartMsg >>]
    /\ UNCHANGED << activityLog, day, initLen, tvars >>

\* existing = activityLog.searchRows(name)
Search(p) ==
    /\ pc[p] = "loop"
    /\ existing' = [existing EXCEPT ![p] = searchRows(activityLog, << forced_names[ni[p]] >>)]
    /\ searched' = [searched EXCEPT ![p] = @ \cup { forced_names[ni[p]] }]
    /\ seenAt' = [seenAt EXCEPT ![p] = Len(activityLog)]
    /\ pc' = [pc EXCEPT ![p] = IF LoopRuns(existing'[p]) THEN "accion" ELSE "scan"]
    /\ UNCHANGED << activityLog, day, runs, notify, ni, flag, scanDay, before,
                    initLen, attempts, mlog, tvars >>

\* `if len(existing) == 0: _accion()`
LoopAccion(p, fn, dispatch) ==
    /\ pc[p] = "accion"
    /\ Accion(p, forced_names[ni[p]], fn, dispatch)
    /\ AfterPass(p)
    /\ UNCHANGED << day, runs, notify, existing, flag, searched, seenAt, scanDay,
                    before, initLen, tvars >>

\* `else: for r in existing: if today in r[4]: flag = True`
Scan(p) ==
    /\ pc[p] = "scan"
    /\ scanDay' = [scanDay EXCEPT ![p] = day]
    /\ IF ScanRaises(existing[p])
       THEN /\ pc' = [pc EXCEPT ![p] = "raised"]
            /\ UNCHANGED << ni, flag >>
       ELSE /\ flag' = [flag EXCEPT ![p] = ScanFlag(@, existing[p], day)]
            /\ AfterPass(p)
    /\ UNCHANGED << activityLog, day, runs, notify, existing, searched, seenAt,
                    before, initLen, attempts, mlog, tvars >>

\* `if flag == False: _accion()`; `name` is the last name of the loop
GateAccion(p, fn, dispatch) ==
    /\ pc[p] = "gate"
    /\ GateRuns(flag[p])
    /\ Accion(p, forced_names[Len(forced_names)], fn, dispatch)
    /\ pc' = [pc EXCEPT ![p] = "done"]
    /\ UNCHANGED << day, runs, notify, ni, existing, flag, searched, seenAt,
                    scanDay, before, initLen, tvars >>

\* `else: mlog.info(...)`
GateSkip(p) ==
    /\ pc[p] = "gate"
    /\ ~GateRuns(flag[p])
    /\ mlog' = [mlog EXCEPT ![p] = Append(@, InfoMsg)]
    /\ pc' = [pc EXCEPT ![p] = "done"]
    /\ UNCHANGED << activityLog, day, runs, notify, ni, existing, flag, searched,
                    seenAt, scanDay, before, initLen, attempts, tvars >>

\* midnight passes
Tick ==
    /\ day < MaxDay
    /\ day' = day + 1
    /\ UNCHANGED << activityLog, runs, pc, notify, ni, existing, flag, searched,
                    seenAt, scanDay, before, initLen, attempts, mlog, tvars >>

\* ------------------------------------------------------------- initial logs
Umigus == "publicacionFbUmigus"

\* a row another front end wrote: event `ev` of task `tid`, written on day d,
\* with `msg` as its message and `title` in its payload
LogRow(ev, tid, d, msg, title) ==
    << << >>, << "TASK" >>, << ev >>, << tid >>, IsoDateTime(d), msg,
       dumps(<< << "title", Str(<< title >>) >> >>) >>

RowPool ==
    { DoneRow(Umigus, 0), DoneRow(Umigus, 1),
      LogRow("SCHEDULED", "tsk_a", 0, << "Programada", Umigus >>, "Ir al veterinario"),
      LogRow("FAILED", "tsk_b", 1, << "FAILED" >>, Umigus),
      LogRow("DONE", "tsk_c", 1, << "DONE" >>, "publicacionFbGenesys"),
      LogRow("NOTIFIED", "tsk_d", 0, << "visto" >> \o IsoDate(1), Umigus),
      << << >>, << "TASK" >>, << Umigus >> >> }

RECURSIVE SeqsUpTo(_, _)
SeqsUpTo(S, n) ==
    IF n = 0 THEN { << >> }
    ELSE LET shorter == SeqsUpTo(S, n - 1)
         IN  shorter \cup { Append(s, x) : s \in { t \in shorter : Len(t) = n - 1 }, x \in S }

Init ==
    /\ registries = << >>
    /\ tasks = << >>
    /\ tpc = "idle"
    /\ result = << >>
    /\ shuffled = << >>
    /\ tasks2 = << >>
    /\ appended = << >>
    /\ ZoneAtRest
    /\ activityLog \in SeqsUpTo(RowPool, MaxInitRows)
    /\ day = 1
    /\ runs = 0
    /\ pc = [p \in Procs |-> "idle"]
    /\ notify = [p \in Procs |-> FALSE]
    /\ ni = [p \in Procs |-> 1]
    /\ existing = [p \in Procs |-> << >>]
    /\ flag = [p \in Procs |-> FALSE]
    /\ searched = [p \in Procs |-> { }]
    /\ seenAt = [p \in Procs |-> 0]
    /\ scanDay = [p \in Procs |-> 1]
    /\ before = [p \in Procs |-> << >>]
    /\ initLen = Len(activityLog)
    /\ attempts = [p \in Procs |-> << >>]
    /\ mlog = [p \in Procs |-> << >>]

Step(p) ==
    \/ Search(p)
    \/ \E fn \in { "returned", "raised" }, dispatch \in { "none", "scheduled", "fails" } :
           LoopAccion(p, fn, dispatch)
    \/ Scan(p)
    \/ \E fn \in { "returned", "raised" }, dispatch \in { "none", "scheduled", "fails" } :
           GateAccion(p, fn, dispatch)
    \/ GateSkip(p)

\* single writer: every invocation is made by the one process Writer, which
\* starts the next one when the last one has ended
Writer == "p1"

BeginAlone(n) == Begin(Writer, n)

Next ==
    \/ \E n \in BOOLEAN : BeginAlone(n)
    \/ \E p \in Procs : Step(p)
    \/ Tick

Spec == Init /\ [][Next]_vars

\* two front ends each construct one Scheduler on the same store, with no
\* mutual exclusion between them
BeginConc(p, n) ==
    /\ pc[p] = "idle"
    /\ Begin(p, n)

NextConc ==
    \/ \E p \in Procs, n \in BOOLEAN : BeginConc(p, n)
    \/ \E p \in Procs : Step(p)

SpecConc == Init /\ [][NextConc]_vars

\* ------------------------------------------------------------- payloads
\* x.strip().strip('"').strip("'") on the items the payloads use
StripItem(x) ==
    CASE x = " vet " -> "vet"
      [] x = "'umigus'" -> "umigus"
      [] x = " " -> ""
      [] OTHER -> x

RECURSIVE MapStrip(_)
MapStrip(items) ==
    IF items = << >> THEN << >>
    ELSE << StripItem(Head(items)) >> \o MapStrip(Tail(items))

\* _coerce_list(v): None gives [], a list its non-blank items stripped, a
\* string its comma-separated parts stripped, the empty ones dropped
coerce_list(v) ==
    IF v.t = "null" THEN << >>
    ELSE IF v.t = "list"
         THEN MapStrip(SelectSeq(v.v, LAMBDA x : StripItem(x) # ""))
         ELSE SelectSeq(MapStrip(SelectSeq(v.v, LAMBDA x : x # ",")),
                        LAMBDA x : x # "")

\* " ".join(raw_tokens)
RECURSIVE JoinFields(_)
JoinFields(fields) ==
    IF fields = << >> THEN << >> ELSE Head(fields) \o JoinFields(Tail(fields))

Min(S) == CHOOSE x \in S : \A y \in S : x <= y

\* grab_str(key) of _from_raw: `key: "VAL"`, else `key: VAL`; on texts whose
\* quote after the colon, when there is one, is closed around some content
GrabStr(t, key) ==
    LET quoted == { i \in 1..Len(t) :
                        /\ t[i] = key /\ At(t, i + 1) = ":" /\ At(t, i + 2) = Q
                        /\ NextQ(t, i + 3) > i + 3 }
        bare == { i \in 1..Len(t) :
                      /\ t[i] = key /\ At(t, i + 1) = ":"
                      /\ At(t, i + 2) \notin { "", ",", "}", Q } }
    IN  IF quoted # { }
        THEN Str(SubSeq(t, Min(quoted) + 3, NextQ(t, Min(quoted) + 3) - 1))
        ELSE IF bare # { } THEN Str(<< t[Min(bare) + 2] >>)
        ELSE Absent

\* inside.split(",")
RECURSIVE SplitComma(_, _)
SplitComma(t, part) ==
    IF t = << >> THEN << part >>
    ELSE IF Head(t) = "," THEN << part >> \o SplitComma(Tail(t), << >>)
    ELSE SplitComma(Tail(t), Append(part, Head(t)))

\* p.strip().strip('"').strip("'")
RECURSIVE StripQuotes(_)
StripQuotes(part) ==
    IF part # << >> /\ Head(part) \in { Q, Apostrophe } THEN StripQuotes(Tail(part))
    ELSE IF part # << >> /\ part[Len(part)] \in { Q, Apostrophe }
         THEN StripQuotes(SubSeq(part, 1, Len(part) - 1))
    ELSE part

RECURSIVE MapParts(_)
MapParts(parts) ==
    IF parts = << >> THEN << >>
    ELSE (IF Head(parts) = << >> THEN << >> ELSE << Text(StripQuotes(Head(parts))) >>)
         \o MapParts(Tail(parts))

\* the `labels: [ ... ]` search of _from_raw
GrabLabels(t) ==
    LET found == { i \in 1..Len(t) :
                       /\ t[i] = "labels" /\ At(t, i + 1) = ":" /\ At(t, i + 2) = "["
                       /\ \E j \in (i + 4)..Len(t) : t[j] = "]"
                       /\ At(t, i + 3) # "]" }
        i == Min(found)
        j == CHOOSE j \in (i + 4)..Len(t) :
                 t[j] = "]" /\ \A k \in (i + 3)..(j - 1) : t[k] # "]"
    IN  IF found = { } THEN Absent
        ELSE List(MapParts(SplitComma(SubSeq(t, i + 3, j - 1), << >>)))

\* _from_raw(raw_tokens)
from_raw(fields) ==
    [k \in Keys |-> IF k = "labels" THEN GrabLabels(JoinFields(fields))
                    ELSE GrabStr(JoinFields(fields), k)]

\* _normalize_data(d), on payloads without "due"
normalize_data(d) ==
    LET e == IF "raw" \in DOMAIN d THEN from_raw(d.raw) ELSE d
    IN  [k \in Keys |->
            IF k = "labels" /\ e[k] # Absent THEN List(coerce_list(Get(e, k))) ELSE e[k]]

\* str(v).upper() for the enum names the payloads use
Upper(x) ==
    CASE x = "done" -> "DONE"
      [] x = "failed" -> "FAILED"
      [] x = "auto" -> "AUTO"
      [] x = "High" -> "HIGH"
      [] x = "robot" -> "ROBOT"
      [] x = "running" -> "RUNNING"
      [] OTHER -> x

StatusMembers == { "PENDING", "RUNNING", "DONE", "SKIPPED", "FAILED" }

ModeMembers == { "AUTO", "USER" }

PriorityMembers == { "LOW", "MED", "HIGH" }

\* Task.__post_init__ on mode: Mode(str(mode).upper()), else USER
CoerceModeUnchecked(v) ==
    IF v.t = "str" /\ Len(v.v) = 1 THEN Upper(v.v[1]) ELSE "USER"

CoerceMode(v) ==
    IF v.t = "str" /\ Len(v.v) = 1 /\ Upper(v.v[1]) \in ModeMembers
    THEN Upper(v.v[1])
    ELSE "USER"

\* Task.__post_init__ on priority: Priority(str(priority).upper()), else MED
CoercePriority(v) ==
    IF v.t = "str" /\ Len(v.v) = 1 /\ Upper(v.v[1]) \in PriorityMembers
    THEN Upper(v.v[1])
    ELSE "MED"

\* Task.__post_init__ on status: Status(str(status).upper()), else PENDING
CoerceStatus(v) ==
    IF v.t = "str" /\ Len(v.v) = 1 /\ Upper(v.v[1]) \in StatusMembers
    THEN Upper(v.v[1])
    ELSE "PENDING"

\* ------------------------------------------------------------- _searchRegistries
KindMembers == { "TASK", "RECURRENT" }

Days == 0..MaxDay

\* datetime.fromisoformat(row[4]) accepts a date with time and offset, and a
\* date alone (midnight; Registro.__post_init__ then attaches the zone)
IsIso(field) == \E d \in Days : field \in { IsoDateTime(d), IsoDate(d) }

fromisoformat(field) ==
    LET d == CHOOSE d \in Days : field \in { IsoDateTime(d), IsoDate(d) }
    IN  IF field = IsoDate(d) THEN 2 * d ELSE 2 * d + 1

\* the body of the try raises: row[5] of a short row, Kind(row[1]) of
\* another word, fromisoformat of another text
RowRaises(row) ==
    \/ Len(row) < 6
    \/ Text(Col(row, 1)) \notin KindMembers
    \/ ~IsIso(Col(row, 4))

\* json.loads(data_str.replace("'", '"')), else {"raw": row[6:]}
DecodeData(fields) ==
    LET r == loads(ReplaceApostrophes(JoinFields(fields)))
    IN  IF r.ok THEN r.v ELSE [raw |-> fields]

\* Registro(...) of one row
ParseRow(row) ==
    [kind |-> Text(Col(row, 1)), event |-> Text(Col(row, 2)),
     task_id |-> Text(Col(row, 3)), when |-> fromisoformat(Col(row, 4)),
     message |-> Col(row, 5), data |-> DecodeData(SubSeq(row, 7, Len(row)))]

\* the loop over result: a row that raises is reported and left out
RECURSIVE ParseRowsAborting(_)
ParseRowsAborting(rows) ==
    IF rows = << >> \/ RowRaises(Head(rows)) THEN << >>
    ELSE << ParseRow(Head(rows)) >> \o ParseRowsAborting(Tail(rows))

RECURSIVE ParseRows(_)
ParseRows(rows) ==
    IF rows = << >> THEN << >>
    ELSE (IF RowRaises(Head(rows)) THEN << >> ELSE << ParseRow(Head(rows)) >>)
         \o ParseRows(Tail(rows))

\* ------------------------------------------------------------- _getTasks
\* sorted(registries, key=lambda r: r.when): stable
SortedByWhenArrival(regs) == regs

RECURSIVE SortedByWhen(_)
SortedByWhen(regs) ==
    IF regs = << >> THEN << >>
    ELSE LET first == CHOOSE i \in 1..Len(regs) :
                          /\ \A j \in 1..Len(regs) : regs[i].when <= regs[j].when
                          /\ \A j \in 1..(i - 1) : regs[j].when # regs[i].when
         IN  << regs[first] >>
             \o SortedByWhen(SubSeq(regs, 1, first - 1) \o SubSeq(regs, first + 1, Len(regs)))

\* position of tid in agg, 0 when `tid not in agg`
AggIndex(agg, tid) ==
    IF \E i \in 1..Len(agg) : agg[i].tid = tid
    THEN CHOOSE i \in 1..Len(agg) : agg[i].tid = tid
    ELSE 0

\* agg[tid] = {...} for the first event of tid
NewAcc(r, d) ==
    [tid |-> r.task_id, first_when |-> r.when, last_when |-> r.when, data |-> d,
     message |-> r.message, kind |-> r.kind, last_event |-> r.event]

\* agg[tid]["data"].update({k: v for k, v in d.items() if v is not None})
UpdateData(old, d) ==
    [k \in Keys |-> IF d[k] # Absent /\ d[k] # None THEN d[k] ELSE old[k]]

\* the else branch: a later event of tid
MergeAccKeepsLast(a, r, d) ==
    [a EXCEPT !.data = UpdateData(@, d),
              !.message = IF r.message # << >> THEN r.message ELSE @,
              !.last_event = r.event]

MergeAcc(a, r, d) ==
    [a EXCEPT !.last_when = r.when,
              !.data = UpdateData(@, d),
              !.message = IF r.message # << >> THEN r.message ELSE @,
              !.last_event = r.event]

RECURSIVE FoldRegs(_, _)
FoldRegs(regs, agg) ==
    IF regs = << >> THEN agg
    ELSE LET r == Head(regs)
             d == normalize_data(r.data)
             i == AggIndex(agg, r.task_id)
         IN  FoldRegs(Tail(regs),
                      IF i = 0 THEN Append(agg, NewAcc(r, d))
                      ELSE [agg EXCEPT ![i] = MergeAcc(@, r, d)])

\* `d.get("title") or a.get("message") or tid`
TitleOf(a) ==
    IF a.data["title"].t = "str" /\ a.data["title"].v # << >> THEN a.data["title"].v
    ELSE IF a.message # << >> THEN a.message
    ELSE << a.tid >>

\* `id=tid`
TaskIdGenerated(tid) == "tsk_generated"

TaskIdOf(tid) == tid

\* Task(...) of one accumulator, after __post_init__
MakeTask(a) ==
    [id |-> TaskIdOf(a.tid),
     title |-> TitleOf(a),
     mode |-> IF a.data["mode"] = Absent THEN "USER"
              ELSE CoerceMode(a.data["mode"]),
     priority |-> IF a.data["priority"] = Absent THEN "MED"
                  ELSE CoercePriority(a.data["priority"]),
     status |-> IF a.data["status"] = Absent THEN "PENDING"
                ELSE CoerceStatus(a.data["status"]),
     labels |-> coerce_list(Get(a.data, "labels")),
     created_at |-> a.first_when,
     updated_at |-> a.last_when]

RECURSIVE MapTasks(_)
MapTasks(agg) ==
    IF agg = << >> THEN << >> ELSE << MakeTask(Head(agg)) >> \o MapTasks(Tail(agg))

getTasks(regs) == MapTasks(FoldRegs(SortedByWhen(regs), << >>))

\* tasks = self._getTasks(registries)
GetTasks ==
    /\ tpc = "ready"
    /\ tasks' = getTasks(registries)
    /\ tpc' = "returned"
    /\ UNCHANGED << registries, result, shuffled, tasks2, appended, zvars, svars >>

\* the call again, the events handed over in the arrival order perm
GetTasksReordered(perm) ==
    /\ tpc = "returned"
    /\ perm \in Permutations(1..Len(registries))
    /\ shuffled' = [i \in 1..Len(registries) |-> registries[perm[i]]]
    /\ tasks2' = getTasks(shuffled')
    /\ tpc' = "reordered"
    /\ UNCHANGED << registries, tasks, result, appended, zvars, svars >>

\* ------------------------------------------------------------- events
TaskIds == { "tsk_a", "tsk_b" }

Payload(title, labels, status, mode, priority) ==
    [k \in Keys |-> CASE k = "title" -> title
                    [] k = "labels" -> labels
                    [] k = "status" -> status
                    [] k = "mode" -> mode
                    [] OTHER -> priority]

PayloadPool ==
    { [event |-> "SCHEDULED", message |-> << "Programada desde test1()" >>,
       data |-> Payload(Absent, Absent, Absent, Absent, Absent)],
      [event |-> "SCHEDULED", message |-> << "Programada" >>,
       data |-> Payload(Str(<< "Ir al veterinario" >>), List(<< "demo", " vet " >>), Absent,
                        Str(<< "USER" >>), Str(<< "High" >>))],
      [event |-> "DONE", message |-> << "DONE" >>,
       data |-> Payload(Str(<< Umigus >>), Str(<< "forced", ",", "'umigus'" >>),
                        Str(<< "done" >>), Str(<< "auto" >>), Str(<< "MED" >>))],
      [event |-> "FAILED", message |-> << >>,
       data |-> Payload(Absent, None, Str(<< "FAILED" >>), None, List(<< "HIGH" >>))],
      [event |-> "NOTIFIED", message |-> << >>,
       data |-> Payload(None, Absent, Str(<< "bogus" >>), Str(<< "robot" >>), Absent)] }

\* the Registro objects a call may be handed
EventPool ==
    { [kind |-> "TASK", event |-> pl.event, task_id |-> tid, when |-> w,
       message |-> pl.message, data |-> pl.data] :
          tid \in TaskIds, w \in 1..MaxWhen, pl \in PayloadPool }

\* no invocation of the scheduler is under way
SchedulerAtRest ==
    /\ activityLog = << >>
    /\ day = 1
    /\ runs = 0
    /\ pc = [p \in Procs |-> "idle"]
    /\ notify = [p \in Procs |-> FALSE]
    /\ ni = [p \in Procs |-> 1]
    /\ existing = [p \in Procs |-> << >>]
    /\ flag = [p \in Procs |-> FALSE]
    /\ searched = [p \in Procs |-> { }]
    /\ seenAt = [p \in Procs |-> 0]
    /\ scanDay = [p \in Procs |-> 1]
    /\ before = [p \in Procs |-> << >>]
    /\ initLen = 0
    /\ attempts = [p \in Procs |-> << >>]
    /\ mlog = [p \in Procs |-> << >>]

InitTasks ==
    /\ registries \in SeqsUpTo(EventPool, MaxEvents)
    /\ tasks = << >>
    /\ tpc = "ready"
    /\ result = << >>
    /\ shuffled = << >>
    /\ tasks2 = << >>
    /\ appended = << >>
    /\ ZoneAtRest
    /\ SchedulerAtRest

NextTasks ==
    \/ GetTasks
    \/ \E perm \in Permutations(1..MaxEvents) \cup Permutations(1..(MaxEvents - 1)) :
           GetTasksReordered(perm)

SpecTasks == InitTasks /\ [][NextTasks]_vars

\* ------------------------------------------------------------- the log read back
\* the dict `data` of _accion, its title and labels being `title`, `labels`
EventDict(title, labels) ==
    << << "title", Str(title) >>, << "mode", Str(<< "AUTO" >>) >>,
       << "due", Str(<< "DAILY" >>) >>, << "priority", Str(<< "MED" >>) >>,
       << "status", Str(<< "DONE" >>) >>, << "labels", List(labels) >>,
       << "source", Str(<< "scheduler:forced" >>) >> >>

\* the tuple handed to addTopRow for the event of task tid
EventRow(tid, title, labels, d) ==
    << << >>, << "TASK" >>, << "DONE" >>, << tid >>, IsoDateTime(d), << "DONE" >>,
       dumps(EventDict(title, labels)) >>

TitlePool ==
    { << "X" >>, << Umigus >>, << "Ir al veterinario" >>, << "O", Apostrophe, "Brien" >> }

LabelsPool ==
    { << >>, << "a", "b" >>, << "b", "a" >>, << "forced", "umigus" >>, << "it's", "b" >> }

\* the event is serialised and its row put on top of the log
AppendEvent(tid, title, labels) ==
    /\ tpc = "log"
    /\ appended = << >>
    /\ activityLog' = addTopRow(activityLog, EventRow(tid, title, labels, day))
    /\ appended' = << [task_id |-> tid, title |-> title, labels |-> labels] >>
    /\ UNCHANGED << registries, tasks, tpc, result, shuffled, tasks2, zvars,
                    day, runs, pc, notify, ni, existing, flag, searched, seenAt,
                    scanDay, before, initLen, attempts, mlog >>

\* registries = self._searchRegistries(self.today)
SearchRegistries ==
    /\ tpc = "log"
    /\ result' = searchRows(activityLog, IsoDate(day))
    /\ registries' = ParseRows(result')
    /\ tpc' = "ready"
    /\ UNCHANGED << tasks, shuffled, tasks2, appended, zvars, svars >>

\* rows of other writers: well-formed ones, and rows with a word that is no
\* Kind, a text that is no timestamp, too few fields, a payload split at its
\* commas
ParsePool ==
    RowPool \cup
    { << << >>, << "task" >>, << "DONE" >>, << "tsk_a" >>, IsoDateTime(1), << "DONE" >>,
         dumps(<< << "title", Str(<< "otra" >>) >> >>) >>,
      << << >>, << "TASK" >>, << "DONE" >>, << "tsk_b" >>, IsoDate(1) \o << "T25:99" >>,
         << "DONE" >>, dumps(<< << "title", Str(<< "otra" >>) >> >>) >>,
      << << >>, << "TASK" >>, IsoDate(1) >>,
      << << >>, << "TASK" >>, << "SCHEDULED" >>, << "tsk_b" >>, IsoDate(1),
         << "Programada desde test1()" >>,
         << "{", Q, "title", Q, ":", Q, "Ir al veterinario", Q >>,
         << "mode", ":", Q, "USER", Q >>, << "status", ":", "running" >>,
         << "labels", ":", "[", Q, "demo", Q >>, << "vet", "]" >>,
         << "source", ":", Q, "test1", Q, "}" >> >> }

InitLog ==
    /\ activityLog \in SeqsUpTo(ParsePool, MaxInitRows)
    /\ day = 1
    /\ runs = 0
    /\ pc = [p \in Procs |-> "idle"]
    /\ notify = [p \in Procs |-> FALSE]
    /\ ni = [p \in Procs |-> 1]
    /\ existing = [p \in Procs |-> << >>]
    /\ flag = [p \in Procs |-> FALSE]
    /\ searched = [p \in Procs |-> { }]
    /\ seenAt = [p \in Procs |-> 0]
    /\ scanDay = [p \in Procs |-> 1]
    /\ before = [p \in Procs |-> << >>]
    /\ initLen = Len(activityLog)
    /\ attempts = [p \in Procs |-> << >>]
    /\ mlog = [p \in Procs |-> << >>]
    /\ registries = << >>
    /\ tasks = << >>
    /\ tpc = "log"
    /\ result = << >>
    /\ shuffled = << >>
    /\ tasks2 = << >>
    /\ appended = << >>
    /\ ZoneAtRest

NextLog ==
    \/ \E title \in TitlePool, labels \in LabelsPool : AppendEvent("tsk_new", title, labels)
    \/ SearchRegistries
    \/ GetTasks

SpecLog == InitLog /\ [][NextLog]_vars

\* ------------------------------------------------------------- zone normalisation
\* out = ensure_tz(dt)
EnsureTz ==
    /\ normalized = << >>
    /\ normalized' = << ensure_tz(dt) >>
    /\ UNCHANGED << MX_TZ, dt, stamps, registries, tasks, tpc, result, shuffled,
                    tasks2, appended, svars >>

\* ensure_tz(out)
EnsureTzAgain ==
    /\ Len(normalized) = 1
    /\ normalized' = Append(normalized, ensure_tz(normalized[1]))
    /\ UNCHANGED << MX_TZ, dt, stamps, registries, tasks, tpc, result, shuffled,
                    tasks2, appended, svars >>

\* Task(title, created_at=dt): __post_init__ normalises created_at and the
\* updated_at its default_factory gave
TaskPostInit ==
    /\ stamps = << >>
    /\ stamps' = << [created_at |-> EnsureOrNow(dt, day),
                     updated_at |-> EnsureOrNow(now_mx(day), day)] >>
    /\ UNCHANGED << MX_TZ, dt, normalized, registries, tasks, tpc, result, shuffled,
                    tasks2, appended, svars >>

\* the timestamps handed over: naive ones, ones of the default zone, ones of
\* another zone, and None
StampPool ==
    { NoStamp } \cup
    { [wall |-> 2 * d + h, tzinfo |-> z] :
          d \in Days, h \in { 0, 1 }, z \in { "none", MexicoCity, "UTC" } }

\* ZoneInfo("America/Mexico_City") was found at import, or raised and left
\* MX_TZ = None
InitZone ==
    /\ MX_TZ \in { MexicoCity, "None" }
    /\ dt \in StampPool
    /\ normalized = << >>
    /\ stamps = << >>
    /\ registries = << >>
    /\ tasks = << >>
    /\ tpc = "idle"
    /\ result = << >>
    /\ shuffled = << >>
    /\ tasks2 = << >>
    /\ appended = << >>
    /\ SchedulerAtRest

NextZone ==
    \/ EnsureTz
    \/ EnsureTzAgain
    \/ TaskPostInit

SpecZone == InitZone /\ [][NextZone]_vars

\* ------------------------------------------------------------- vocabulary of the claims
Attempted(p) == Len(attempts[p])

Returned(p) == Cardinality({ i \in 1..Len(attempts[p]) : attempts[p][i].fn = "returned" })

\* rows the log gained since the invocation of p began
RowsAdded(p) == Len(activityLog) - Len(before[p])

Matches(r, name) == \E i \in 1..Len(r) : Contains(r[i], << name >>)

HasTimestamp(r) == Len(r) >= 5

CarriesDate(r, d) == HasTimestamp(r) /\ Contains(r[5], IsoDate(d))

IsDoneRowFor(r, name) ==
    /\ Len(r) = 7
    /\ r[2] = << "TASK" >>
    /\ r[3] = << "DONE" >>
    /\ Contains(r[7], << Q, "title", Q, ":", Q, name, Q >>)

\* rows the scheduler appended that are DONE rows of `name` dated day d
DoneRowsOn(name, d) ==
    { i \in 1..(Len(activityLog) - initLen) :
          IsDoneRowFor(activityLog[i], name) /\ CarriesDate(activityLog[i], d) }

\* ------------------------------------------------------------- claims
\* C1: when the log holds no row matching the forced action's name, one
\* invocation of _routine calls the action function exactly once and appends
\* exactly one DONE row (none when that one call raised).
C1_NoMatchRunsOnce ==
    \A p \in Procs :
        ( /\ pc[p] = "done"
          /\ \A i \in 1..Len(before[p]) : ~Matches(before[p][i], Umigus) )
        => /\ Attempted(p) = 1
           /\ RowsAdded(p) = Returned(p)

\* C2: with a single writer, on every calendar day the scheduler has appended
\* at most one DONE row of the forced action carrying that day's date.
C2_AtMostOncePerDay ==
    \A d \in 1..MaxDay : Cardinality(DoneRowsOn(Umigus, d)) <= 1

\* C3: when the search returned a row whose timestamp field (column 4) contains
\* today's ISO date, the invocation does not call the action function and
\* leaves the log as it found it.
C3_TodayRowSkips ==
    \A p \in Procs :
        ( /\ pc[p] \in { "gate", "done", "raised" }
          /\ \E i \in 1..Len(existing[p]) : CarriesDate(existing[p][i], scanDay[p]) )
        => /\ attempts[p] = << >>
           /\ activityLog = before[p]

C3_Witness ==
    /\ pc[Writer] = "done"
    /\ Len(existing[Writer]) = 2
    /\ CarriesDate(existing[Writer][1], scanDay[Writer])
    /\ ~CarriesDate(existing[Writer][2], scanDay[Writer])
    /\ mlog[Writer] = << StartMsg, InfoMsg >>

\* C4: when the search returned rows, each with a timestamp field and none of
\* them carrying today's date in it, the invocation calls the action function
\* once and appends one DONE row of the action (none when the call raised):
\* matching rows of other days never block the execution.
C4_OtherDaysRun ==
    \A p \in Procs :
        ( /\ pc[p] = "done"
          /\ existing[p] # << >>
          /\ \A i \in 1..Len(existing[p]) :
                 HasTimestamp(existing[p][i]) /\ ~CarriesDate(existing[p][i], scanDay[p]) )
        => /\ Attempted(p) = 1
           /\ RowsAdded(p) = Returned(p)
           /\ \A i \in 1..RowsAdded(p) : IsDoneRowFor(activityLog[i], Umigus)
           /\ SubSeq(activityLog, RowsAdded(p) + 1, Len(activityLog)) = before[p]

C4_Witness ==
    /\ pc[Writer] = "done"
    /\ Len(existing[Writer]) = 2
    /\ \A i \in 1..2 : Matches(existing[Writer][i], Umigus)
                       /\ HasTimestamp(existing[Writer][i])
                       /\ ~CarriesDate(existing[Writer][i], scanDay[Writer])
    /\ Attempted(Writer) = 1
    /\ attempts[Writer][1].fn = "returned"
    /\ activityLog = << DoneRow(Umigus, day) >> \o before[Writer]

\* C5: when the action function raises in an execution attempt, the exception
\* is caught: that attempt appends no row, an error naming the action is
\* logged, and the invocation does not fail.
C5_RaiseCaught ==
    \A p \in Procs : \A i \in 1..Len(attempts[p]) :
        attempts[p][i].fn = "raised"
        => /\ ~attempts[p][i].row
           /\ \E j \in 1..Len(mlog[p]) :
                  /\ mlog[p][j].level = "error"
                  /\ Contains(mlog[p][j].text, << attempts[p][i].name >>)
           /\ pc[p] # "raised"

C5_Witness ==
    /\ pc[Writer] = "done"
    /\ Attempted(Writer) = 1
    /\ attempts[Writer][1].fn = "raised"
    /\ activityLog = before[Writer]
    /\ mlog[Writer] = << StartMsg, ErrorMsg(Umigus, "ActionError") >>

\* C6: there is no automatic retry: within one invocation no call of the
\* action function follows a call that raised.
C6_NoRetry ==
    \A p \in Procs : \A i \in 1..Len(attempts[p]) :
        attempts[p][i].fn = "raised" => i = Len(attempts[p])

\* C7: on every invocation the log is searched for each action name of the
\* catalog forced_tasks; no catalog action is left unchecked.
C7_EveryCatalogActionChecked ==
    \A p \in Procs : pc[p] = "done" => searched[p] = forced_tasks

\* C8: when the two processes both search before either appends, and neither
\* search returns a row of today, both call the action function and, their
\* calls returning, two DONE rows of the action dated the same day are left.
C8_RaceBothExecute ==
    \A p, q \in Procs :
        ( /\ p # q
          /\ pc[p] = "done" /\ pc[q] = "done"
          /\ seenAt[p] = seenAt[q]
          /\ \A i \in 1..Len(existing[p]) : ~CarriesDate(existing[p][i], day)
          /\ Returned(p) = Attempted(p) /\ Returned(q) = Attempted(q) )
        => /\ Attempted(p) >= 1 /\ Attempted(q) >= 1
           /\ Cardinality({ i \in 1..(Len(activityLog) - seenAt[p]) :
                  IsDoneRowFor(activityLog[i], Umigus)
                  /\ CarriesDate(activityLog[i], day) }) >= 2

C8_Witness ==
    /\ pc["p1"] = "done" /\ pc["p2"] = "done"
    /\ existing["p1"] # << >> /\ existing["p2"] = existing["p1"]
    /\ seenAt["p1"] = Len(activityLog) - 2 /\ seenAt["p2"] = seenAt["p1"]
    /\ flag["p1"] = FALSE /\ flag["p2"] = FALSE
    /\ Attempted("p1") = 1 /\ Attempted("p2") = 1
    /\ activityLog[1] = DoneRow(Umigus, day) /\ activityLog[2] = DoneRow(Umigus, day)

\* the events of task tid that give key k a value other than null
Specifying(tid, k) ==
    { i \in 1..Len(registries) :
          /\ registries[i].task_id = tid
          /\ registries[i].data[k] # Absent
          /\ registries[i].data[k] # None }

\* the snapshot's value of payload field k
TaskField(t, k) ==
    CASE k = "title" -> t.title
      [] k = "labels" -> t.labels
      [] k = "mode" -> << t.mode >>
      [] k = "priority" -> << t.priority >>
      [] OTHER -> << t.status >>

\* the value an event gives for k, as a Task holds it
GivenField(v, k) ==
    CASE k = "title" -> v.v
      [] k = "labels" -> coerce_list(v)
      [] k = "mode" -> << CoerceMode(v) >>
      [] k = "priority" -> << CoercePriority(v) >>
      [] OTHER -> << CoerceStatus(v) >>

\* C9: _getTasks returns exactly one Task per distinct task id of the events,
\* and each Task's id is that task id.
C9_OneTaskPerId ==
    tpc = "returned"
    => /\ { tasks[i].id : i \in 1..Len(tasks) }
              = { registries[j].task_id : j \in 1..Len(registries) }
       /\ \A i, j \in 1..Len(tasks) : tasks[i].id = tasks[j].id => i = j

C9_Witness ==
    /\ tpc = "returned"
    /\ Len(registries) = 2
    /\ registries[1].task_id = "tsk_b"
    /\ registries[2].task_id = "tsk_a"
    /\ registries[1].when > registries[2].when
    /\ Len(tasks) = 2
    /\ tasks[1].id = "tsk_a" /\ tasks[2].id = "tsk_b"

\* C10: for every task and payload field, the snapshot's value is the value
\* given by a chronologically last event of the task among those that give
\* the field a non-null value; an event giving null never overwrites.
C10_LastNonNullWins ==
    tpc = "returned"
    => \A n \in 1..Len(tasks) : \A k \in Keys :
           Specifying(tasks[n].id, k) # { }
           => \E i \in Specifying(tasks[n].id, k) :
                  /\ \A j \in Specifying(tasks[n].id, k) :
                         registries[j].when <= registries[i].when
                  /\ TaskField(tasks[n], k) = GivenField(registries[i].data[k], k)

\* the snapshots a call returned, whatever their order in the list
Snapshots(ts) == { ts[i] : i \in 1..Len(ts) }

\* no two events of one task carry the same timestamp
NoTieInTask(regs) ==
    \A i, j \in 1..Len(regs) :
        (i # j /\ regs[i].task_id = regs[j].task_id) => regs[i].when # regs[j].when

\* C11 (as claimed): for every collection of events and every permutation of
\* it, events of one task sharing a timestamp included, _getTasks yields the
\* same Task snapshots.
C11_AnyOrderSameTasks ==
    tpc = "reordered" => Snapshots(tasks2) = Snapshots(tasks)

\* C11 (amended): for every collection of events in which no two events of
\* one task share a timestamp, and every permutation of it, _getTasks yields
\* the same Task snapshots.
C11_OrderOfDistinctInstants ==
    (tpc = "reordered" /\ NoTieInTask(registries))
    => Snapshots(tasks2) = Snapshots(tasks)

C11_Witness ==
    /\ tpc = "reordered"
    /\ Len(registries) = 2
    /\ registries[1].task_id = registries[2].task_id
    /\ registries[1].when < registries[2].when
    /\ registries[1].data["title"] # registries[2].data["title"]
    /\ registries[2].data["title"].t = "str"
    /\ shuffled = << registries[2], registries[1] >>
    /\ tasks2 = tasks
    /\ tasks[1].title = registries[2].data["title"].v

\* C12: every reconciled Task has created_at the timestamp of the earliest
\* event of its task id and updated_at that of the latest one, in any arrival
\* order; hence created_at <= updated_at.
C12_FirstAndLastSeen ==
    tpc \in { "returned", "reordered" }
    => \A n \in 1..Len(tasks) :
           LET whens == { registries[i].when :
                              i \in { j \in 1..Len(registries) :
                                          registries[j].task_id = tasks[n].id } }
           IN  /\ tasks[n].created_at \in whens
               /\ tasks[n].updated_at \in whens
               /\ \A w \in whens : tasks[n].created_at <= w /\ w <= tasks[n].updated_at
               /\ tasks[n].created_at <= tasks[n].updated_at

C12_Witness ==
    /\ tpc = "returned"
    /\ Len(registries) = 2
    /\ registries[1].task_id = registries[2].task_id
    /\ registries[1].when > registries[2].when
    /\ Len(tasks) = 1
    /\ tasks[1].created_at = registries[2].when
    /\ tasks[1].updated_at = registries[1].when

\* C15: every Task produced by reconciliation has mode, priority and status
\* equal to a member of its enum, whatever the payloads hold: absent gives
\* USER / MED / PENDING, a name of a member in any letter case gives that
\* member, any other value gives the default.
C15_EnumFieldsValid ==
    tpc = "returned"
    => \A n \in 1..Len(tasks) :
           /\ tasks[n].mode \in { "AUTO", "USER" }
           /\ tasks[n].priority \in { "LOW", "MED", "HIGH" }
           /\ tasks[n].status \in { "PENDING", "RUNNING", "DONE", "SKIPPED", "FAILED" }
           /\ \A k \in { "mode", "priority", "status" } :
                  LET given == { registries[i].data[k] :
                                     i \in { j \in 1..Len(registries) :
                                                 registries[j].task_id = tasks[n].id } }
                      default == CASE k = "mode" -> "USER"
                                   [] k = "priority" -> "MED"
                                   [] OTHER -> "PENDING"
                  IN  /\ given = { Absent } => TaskField(tasks[n], k) = << default >>
                      /\ (k = "mode" /\ given = { Str(<< "auto" >>) })
                         => tasks[n].mode = "AUTO"
                      /\ (k = "priority" /\ given = { Str(<< "High" >>) })
                         => tasks[n].priority = "HIGH"
                      /\ (k = "status" /\ given = { Str(<< "done" >>) })
                         => tasks[n].status = "DONE"
                      /\ given \in { { Str(<< "robot" >>) }, { Str(<< "bogus" >>) },
                                       { List(<< "HIGH" >>) }, { None } }
                         => TaskField(tasks[n], k) = << default >>

C15_Witness ==
    /\ tpc = "returned"
    /\ Len(registries) = 2
    /\ registries[1].task_id = "tsk_a"
    /\ registries[2].task_id = "tsk_b"
    /\ registries[1].data["mode"] = Str(<< "robot" >>)
    /\ registries[2].data["mode"] = Str(<< "auto" >>)
    /\ registries[2].data["status"] = Str(<< "done" >>)
    /\ Len(tasks) = 2
    /\ tasks[1].mode = "USER" /\ tasks[1].priority = "MED" /\ tasks[1].status = "PENDING"
    /\ tasks[2].mode = "AUTO" /\ tasks[2].status = "DONE"

\* the kind column of the row is no Kind value
BadKind(r) == Len(r) >= 6 /\ r[2] \notin { << "TASK" >>, << "RECURRENT" >> }

\* the timestamp column of the row is no ISO-8601 text
BadTimestamp(r) ==
    Len(r) >= 6 /\ ~\E d \in 0..MaxDay : r[5] = IsoDate(d) \/ r[5] = IsoDateTime(d)

Without(rows, k) == SubSeq(rows, 1, k - 1) \o SubSeq(rows, k + 1, Len(rows))

\* C13: a row of the batch whose kind column is no Kind value or whose
\* timestamp column is no ISO-8601 text is dropped by _searchRegistries, which
\* returns; the events parsed and the Tasks reconciled are those of the batch
\* without that row.
C13_MalformedRowDropped ==
    tpc \in { "ready", "returned" }
    => \A k \in 1..Len(result) :
           (BadKind(result[k]) \/ BadTimestamp(result[k]))
           => /\ registries = ParseRows(Without(result, k))
              /\ \A i \in 1..Len(registries) :
                     registries[i].kind \in { "TASK", "RECURRENT" }
              /\ tpc = "returned" => tasks = getTasks(ParseRows(Without(result, k)))

C13_Witness ==
    /\ tpc = "returned"
    /\ Len(result) = 2
    /\ BadTimestamp(result[1])
    /\ result[2] = DoneRow(Umigus, 1)
    /\ Len(registries) = 1
    /\ registries[1].task_id = "tsk_20250911"
    /\ Len(tasks) = 1
    /\ tasks[1].id = "tsk_20250911"
    /\ tasks[1].title = << Umigus >>

\* C16: the row appended for an event, parsed again by _searchRegistries and
\* reconciled, gives a Task of the event's task id with the payload's title
\* and its labels in the same order, for every title and labels.
C16_RoundTrip ==
    (tpc = "returned" /\ appended # << >>)
    => \E n \in 1..Len(tasks) :
           /\ tasks[n].id = appended[1].task_id
           /\ tasks[n].title = appended[1].title
           /\ tasks[n].labels = appended[1].labels

\* C14: whatever rows the log holds, rows matching the action name with
\* fewer than five fields included, no invocation ends in an uncaught error.
C14_NoUncaughtError ==
    \A p \in Procs : pc[p] # "raised"

\* rows of the log as the invocation of p found it that earlier invocations
\* appended: DONE rows of `name` carrying the date of day d
AppendedEarlier(p, name, d) ==
    { i \in 1..(Len(before[p]) - initLen) :
          IsDoneRowFor(before[p][i], name) /\ CarriesDate(before[p][i], d) }

\* C18: an invocation leaves every row the log held before it where it was, in
\* the same order, and only puts new DONE rows of the action on top.
C18_AppendOnlyOnTop ==
    \A p \in Procs :
        pc[p] # "idle"
        => /\ RowsAdded(p) >= 0
           /\ SubSeq(activityLog, RowsAdded(p) + 1, Len(activityLog)) = before[p]
           /\ \A i \in 1..RowsAdded(p) : IsDoneRowFor(activityLog[i], Umigus)

C18_Witness ==
    /\ pc[Writer] = "done"
    /\ Len(before[Writer]) = 2
    /\ ~IsDoneRowFor(before[Writer][1], Umigus)
    /\ RowsAdded(Writer) = 1
    /\ IsDoneRowFor(activityLog[1], Umigus)
    /\ activityLog[2] = before[Writer][1]
    /\ activityLog[3] = before[Writer][2]

\* C19: once an invocation has run the action and appended its DONE row, a
\* later invocation of the single writer that checks the log on the same
\* calendar day gets that row from the search by the action's name, does not
\* call the action function and appends nothing.
C19_SameDayRerunSkips ==
    ( /\ pc[Writer] \in { "gate", "done" }
      /\ AppendedEarlier(Writer, Umigus, scanDay[Writer]) # { } )
    => /\ \A i \in AppendedEarlier(Writer, Umigus, scanDay[Writer]) :
              \E j \in 1..Len(existing[Writer]) : existing[Writer][j] = before[Writer][i]
       /\ Umigus \in searched[Writer]
       /\ Attempted(Writer) = 0
       /\ activityLog = before[Writer]
       /\ pc[Writer] = "done" => mlog[Writer] = << StartMsg, InfoMsg >>

C19_Witness ==
    /\ pc[Writer] = "done"
    /\ runs = 2
    /\ initLen = 1
    /\ Len(before[Writer]) = 2
    /\ AppendedEarlier(Writer, Umigus, scanDay[Writer]) = { 1 }
    /\ Attempted(Writer) = 0
    /\ activityLog = before[Writer]

\* C20: an invocation skips the forced action only when the log holds a DONE
\* row of that action dated today; a row dated today that names the action
\* but has another event name, or is of another task, does not make it skip.
C20_SkipsOnlyOnDoneToday ==
    \A p \in Procs :
        ( /\ pc[p] = "done"
          /\ Attempted(p) = 0 )
        => \E i \in 1..Len(before[p]) :
               IsDoneRowFor(before[p][i], Umigus) /\ CarriesDate(before[p][i], scanDay[p])

\* C17: ensure_tz returns every timestamp that carries a zone as it is, and
\* every naive timestamp with the default zone attached and the same
\* wall-clock value; applied again it changes nothing; created_at and
\* updated_at of a constructed Task carry a zone.
C17_ZoneNormalisation ==
    /\ (normalized # << >> /\ dt # NoStamp)
       => /\ dt.tzinfo # "none" => normalized[1] = dt
          /\ dt.tzinfo = "none"
             => normalized[1] = [wall |-> dt.wall, tzinfo |-> "America/Mexico_City"]
    /\ Len(normalized) = 2 => normalized[2] = normalized[1]
    /\ stamps # << >>
       => /\ stamps[1].created_at.tzinfo \notin { "none", "absent" }
          /\ stamps[1].updated_at.tzinfo \notin { "none", "absent" }

\* the levels of the messages one execution attempt logged
LevelsOf(a) == { a.logs[i].level : i \in 1..Len(a.logs) }

\* C21: each execution attempt of the forced action ends in exactly one of two
\* outcomes: a DONE row appended and success logged, or no row appended and an
\* execution error logged; no attempt that appended a DONE row logs an
\* execution error, also when a notifier and channel are configured and
\* dispatching the notification fails.
C21_OneOutcomePerAttempt ==
    \A p \in Procs : \A i \in 1..Len(attempts[p]) :
        \/ /\ attempts[p][i].row
           /\ LevelsOf(attempts[p][i]) = { "success" }
        \/ /\ ~attempts[p][i].row
           /\ LevelsOf(attempts[p][i]) = { "error" }

=============================================================================
